---- MODULE Spec2Model ----
(***************************************************************************)
(* Model of the Foundry Local model registry (ModelDiscovery), the         *)
(* transport service it calls (FoundryLocalService), the configuration it  *)
(* reads and writes (ConfigurationManager) and the chat participant        *)
(* (FoundryLocalChatProvider).                                             *)
(*                                                                         *)
(* The registry runs on one event loop: every action below is the code     *)
(* that runs between two suspension points (await) of one handler.         *)
(***************************************************************************)
EXTENDS Integers, Sequences, FiniteSets, TLC

\* ------------------------------------------------------------------ bounds
Ids == {"m1", "m2"}
MaxModels == 2          \* longest model list the daemon answers with
MaxRefreshes == 2       \* refreshModels calls suspended at the same time
MaxPending == 1         \* load / unload / set-default calls suspended at the same time
MaxTicks == 2           \* clock steps
MaxTokenLimit == 3      \* largest token limit a text is truncated to
MaxRetryLimit == 3      \* largest foundryLocal.maxRetries setting
MaxChunks == 3          \* most chunks a chat stream delivers
MaxTurns == 2           \* longest chat history
MaxParts == 2           \* most parts of a response turn or of a message
MaxTextLen == 9         \* longest text whose tokens are estimated
MaxMessages == 2        \* most messages whose tokens are estimated together
MaxCount == 30          \* largest multiple of each scale given to formatTokenCount

\* --------------------------------------------------------------- constants
refreshInterval == 30000
TickMs == refreshInterval \div 2
discoveryInterval == 60000

NoModel == "none"
NoDate == -1

\* ------------------------------------------------------------------ state
VARIABLES
    models,             \* ModelDiscovery.models: the cached list
    lastRefresh,        \* ModelDiscovery.lastRefresh (NoDate = undefined)
    refreshInProgress,  \* ModelDiscovery.refreshInProgress
    defaultModel,       \* the foundryLocal.defaultModel setting
    now,                \* Date.now()
    awaitingStatus,     \* refreshModels calls suspended in checkStatus()
    awaitingModels,     \* refreshModels calls suspended in foundryService.getModels()
    overlapped,         \* a forced call started a refresh while one was in flight
    pending,            \* suspended loadModel / unloadModel / setDefaultModel calls
    held,               \* what a caller holds of a list the registry handed out
    last,               \* what the last handler step did
    call,               \* the FoundryLocalService call under way, or the last one
    turn,               \* the chat turn under way, or the last one
    calc,               \* the last conversion or count computed: function, input, output
    timer               \* the timer of startPeriodicDiscovery

registryVars == <<models, lastRefresh, refreshInProgress, defaultModel, now,
                  awaitingStatus, awaitingModels, overlapped, pending, held, last>>

vars == <<registryVars, call, turn, calc, timer>>

\* ------------------------------------------------------------ daemon data
\* a boolean field of the JSON payload: true, or missing (or any falsy value)
Flag == {"true", "absent"}
RawModel == [id : Ids, isLoaded : Flag, isDefault : Flag]

RECURSIVE SeqsUpTo(_, _)
SeqsUpTo(S, n) ==
    IF n = 0 THEN {<<>>}
    ELSE LET shorter == SeqsUpTo(S, n - 1)
         IN shorter \cup {Append(s, x) : s \in {t \in shorter : Len(t) = n - 1}, x \in S}

\* what the /models request can end with
ModelsReply ==
    [kind : {"neterr", "nonok", "nolist"}, data : {<<>>}]
        \cup [kind : {"list"}, data : SeqsUpTo(RawModel, MaxModels)]

\* what the /models/load and /models/unload requests can end with
LoadReply == {"ok", "nonok", "neterr"}

\* ------------------------------------------------- FoundryLocalService
\* data.x || false
OrFalse(v) == v = "true"

parseModelData(data) ==
    [id |-> data.id, isLoaded |-> OrFalse(data.isLoaded), isDefault |-> OrFalse(data.isDefault)]

\* FoundryLocalService.getModels: every failure is caught and answered with []
ServiceGetModels(reply) ==
    IF reply.kind = "list"
    THEN [i \in 1..Len(reply.data) |-> parseModelData(reply.data[i])]
    ELSE <<>>

\* FoundryLocalService.loadModel / unloadModel: true only on response.ok
ServiceLoadModel(reply) == reply = "ok"

\* ------------------------------------------------------ ModelDiscovery
\* Array.prototype.find over the places that match: the first of them, 0
\* (undefined) when there is none
Find(matches) ==
    IF matches = {} THEN 0 ELSE CHOOSE i \in matches : \A j \in matches : i <= j

getModel(list, modelId) == Find({i \in 1..Len(list) : list[i].id = modelId})

\* the resolution with the configured default looked up first
getDefaultModel_ConfiguredFirst(list, configured) ==
    LET flagged == Find({i \in 1..Len(list) : list[i].isDefault})
        byConfig == IF configured # NoModel THEN getModel(list, configured) ELSE 0
        loaded == Find({i \in 1..Len(list) : list[i].isLoaded})
    IN IF byConfig # 0 THEN byConfig
       ELSE IF flagged # 0 THEN flagged
       ELSE IF loaded # 0 THEN loaded
       ELSE IF Len(list) > 0 THEN 1 ELSE 0

\* getDefaultModel as an index into the cache, 0 = undefined
getDefaultModel(list, configured) ==
    LET flagged == Find({i \in 1..Len(list) : list[i].isDefault})
        byConfig == IF configured # NoModel THEN getModel(list, configured) ELSE 0
        loaded == Find({i \in 1..Len(list) : list[i].isLoaded})
    IN IF flagged # 0 THEN flagged
       ELSE IF byConfig # 0 THEN byConfig
       ELSE IF loaded # 0 THEN loaded
       ELSE IF Len(list) > 0 THEN 1 ELSE 0

\* new Map(list.map(model => [model.id, model])).get(modelId): a later entry
\* with the same id replaces an earlier one; 0 when the id is not a key
MapGet(list, modelId) ==
    IF \E i \in 1..Len(list) : list[i].id = modelId
    THEN CHOOSE i \in 1..Len(list) :
            list[i].id = modelId /\ \A j \in (i + 1)..Len(list) : list[j].id # modelId
    ELSE 0

\* updateModels taking the fetched models as they are
updateModels_AsFetched(old, newModels) == newModels

\* updateModels(newModels): the fetched models, each with the isDefault of the
\* cached model of its id when there is one
updateModels(old, newModels) ==
    [i \in 1..Len(newModels) |->
        LET existing == MapGet(old, newModels[i].id)
        IN IF existing # 0
           THEN [newModels[i] EXCEPT !.isDefault = old[existing].isDefault]
           ELSE newModels[i]]

\* models.forEach(m => { m.isDefault = m.id === modelId })
markDefault(list, modelId) ==
    [i \in 1..Len(list) |-> [list[i] EXCEPT !.isDefault = (list[i].id = modelId)]]

\* ------------------------------------------------------------ bookkeeping
inFlight == awaitingStatus + awaitingModels

\* the record of a handler step: the operation, its argument, what the call
\* returned ("list" is this.models itself, "pending" a call still suspended),
\* whether onModelsChangedEmitter.fire(this.models) ran; data is the list of
\* the daemon's answer when the step took one in, at the place in the cache
\* of the model object the step returned, payload the list the change event
\* carried
Did(op, id, result, fired) ==
    [op |-> op, id |-> id, result |-> result, fired |-> fired, data |-> <<>>, at |-> 0,
     payload |-> <<>>]

\* a step that ends in onModelsChangedEmitter.fire(list) when fired
Fire(op, id, result, fired, list) ==
    [Did(op, id, result, fired) EXCEPT !.payload = IF fired THEN list ELSE <<>>]

\* suspended calls hold the model object they looked up before the await;
\* idx is its place in the cache, 0 once the cache no longer holds that object
Detach(tasks) == {[t EXCEPT !.idx = 0] : t \in tasks}

\* a caller that keeps the list a step handed out holds this.models itself;
\* a list held from before is cut off when the step replaced the cache array
HandOut(keep, replaced) ==
    held' = IF keep THEN "alias" ELSE IF replaced THEN "none" ELSE held

\* no error: makeRequest's lastError = null
NoError == [attempt |-> -1, kind |-> "none"]

\* what a service method gave its caller: how is "return" or "raise"
Pending == [how |-> "pending", value |-> FALSE]

NoCall ==
    [method |-> "none", maxRetries |-> 0, attempt |-> 0, errors |-> <<>>,
     waits |-> <<>>, phase |-> "idle", raised |-> NoError, answer |-> "none",
     result |-> Pending]

\* a chat turn before handleChatRequest ran: stream is what the daemon will
\* deliver and ending how the stream is over after that, read the chunks the
\* provider took from the generator, sink the response.markdown calls,
\* requests the requests sent to the daemon, model the id the request names,
\* maxRetries the config.maxRetries that makeRequest read for the request
NoTurn ==
    [phase |-> "idle", stream |-> <<>>, ending |-> "end", read |-> 0,
     cancelled |-> FALSE, cancelledAt |-> 0, sink |-> <<>>, requests |-> 0,
     failed |-> FALSE, outcome |-> "pending", model |-> NoModel, maxRetries |-> 0]

\* nothing computed yet
NoCalc == [fn |-> "none", input |-> <<>>, output |-> <<>>]

\* startPeriodicDiscovery not called: no timer
NoTimer == [active |-> FALSE, disposed |-> FALSE, intervalMs |-> 0, since |-> 0,
            due |-> 0, calls |-> 0, deactivated |-> FALSE]

Init ==
    /\ models = <<>>
    /\ lastRefresh = NoDate
    /\ refreshInProgress = FALSE
    /\ defaultModel \in Ids \cup {NoModel}
    /\ now = 0
    /\ awaitingStatus = 0
    /\ awaitingModels = 0
    /\ overlapped = FALSE
    /\ pending = {}
    /\ held = "none"
    /\ last = Did("init", NoModel, "void", FALSE)
    /\ call = NoCall
    /\ turn = NoTurn
    /\ calc = NoCalc
    /\ timer = NoTimer

\* ------------------------------------------------------------- refresh
\* refreshModels whose recency test does not look at force
RefreshCall_WindowForForced(force, keep) ==
    /\ IF refreshInProgress /\ ~force
       THEN /\ last' = Did("refreshBusy", NoModel, "list", FALSE)
            /\ HandOut(keep, FALSE)
            /\ UNCHANGED <<models, lastRefresh, refreshInProgress, defaultModel, now,
                           awaitingStatus, awaitingModels, overlapped, pending>>
       ELSE IF lastRefresh # NoDate /\ now - lastRefresh < refreshInterval
       THEN /\ last' = Did("refreshRecent", NoModel, "list", FALSE)
            /\ HandOut(keep, FALSE)
            /\ UNCHANGED <<models, lastRefresh, refreshInProgress, defaultModel, now,
                           awaitingStatus, awaitingModels, overlapped, pending>>
       ELSE /\ inFlight < MaxRefreshes
            /\ ~keep
            /\ refreshInProgress' = TRUE
            /\ awaitingStatus' = awaitingStatus + 1
            /\ overlapped' = (overlapped \/ (force /\ inFlight > 0))
            /\ last' = Did(IF force THEN "refreshForced" ELSE "refreshStarted",
                           NoModel, "pending", FALSE)
            /\ UNCHANGED <<models, lastRefresh, defaultModel, now, awaitingModels,
                           pending, held>>

\* refreshModels(force) up to its first await, on the registry's fields
RefreshCall(force, keep) ==
    /\ IF refreshInProgress /\ ~force
       THEN /\ last' = Did("refreshBusy", NoModel, "list", FALSE)
            /\ HandOut(keep, FALSE)
            /\ UNCHANGED <<models, lastRefresh, refreshInProgress, defaultModel, now,
                           awaitingStatus, awaitingModels, overlapped, pending>>
       ELSE IF ~force /\ lastRefresh # NoDate /\ now - lastRefresh < refreshInterval
       THEN /\ last' = Did("refreshRecent", NoModel, "list", FALSE)
            /\ HandOut(keep, FALSE)
            /\ UNCHANGED <<models, lastRefresh, refreshInProgress, defaultModel, now,
                           awaitingStatus, awaitingModels, overlapped, pending>>
       ELSE /\ inFlight < MaxRefreshes
            /\ ~keep
            /\ refreshInProgress' = TRUE
            /\ awaitingStatus' = awaitingStatus + 1
            /\ overlapped' = (overlapped \/ (force /\ inFlight > 0))
            /\ last' = Did(IF force THEN "refreshForced" ELSE "refreshStarted",
                           NoModel, "pending", FALSE)
            /\ UNCHANGED <<models, lastRefresh, defaultModel, now, awaitingModels,
                           pending, held>>

\* refreshModels without the refreshInProgress test
RefreshModels_NoBusyTest(force, keep) ==
    /\ IF ~force /\ lastRefresh # NoDate /\ now - lastRefresh < refreshInterval
       THEN /\ last' = Did("refreshRecent", NoModel, "list", FALSE)
            /\ HandOut(keep, FALSE)
            /\ UNCHANGED <<models, lastRefresh, refreshInProgress, defaultModel, now,
                           awaitingStatus, awaitingModels, overlapped, pending>>
       ELSE /\ inFlight < MaxRefreshes
            /\ ~keep
            /\ refreshInProgress' = TRUE
            /\ awaitingStatus' = awaitingStatus + 1
            /\ overlapped' = (overlapped \/ (force /\ inFlight > 0))
            /\ last' = Did(IF force THEN "refreshForced" ELSE "refreshStarted",
                           NoModel, "pending", FALSE)
            /\ UNCHANGED <<models, lastRefresh, defaultModel, now, awaitingModels,
                           pending, held>>
    /\ UNCHANGED <<call, turn, calc, timer>>

\* refreshModels(force) called by a command or by another component
RefreshModels(force, keep) ==
    /\ RefreshCall(force, keep)
    /\ UNCHANGED <<call, turn, calc, timer>>

\* a refresh ending without its finally block
RefreshEnds_KeepsFlag ==
    /\ refreshInProgress' = refreshInProgress
    /\ overlapped' = (overlapped /\ inFlight > 1)

\* the finally block, and the end of a refresh for the bookkeeping
RefreshEnds ==
    /\ refreshInProgress' = FALSE
    /\ overlapped' = (overlapped /\ inFlight > 1)

\* refreshModels stamping lastRefresh when the daemon was unreachable
CheckStatusDone_StampsUnreachable(isReachable, keep) ==
    /\ awaitingStatus > 0
    /\ awaitingStatus' = awaitingStatus - 1
    /\ IF ~isReachable
       THEN /\ RefreshEnds
            /\ last' = Did("refreshUnreachable", NoModel, "list", FALSE)
            /\ HandOut(keep, FALSE)
            /\ lastRefresh' = now
            /\ UNCHANGED <<models, defaultModel, now, awaitingModels, pending>>
       ELSE /\ ~keep
            /\ awaitingModels' = awaitingModels + 1
            /\ last' = Did("refreshFetching", NoModel, "pending", FALSE)
            /\ UNCHANGED <<models, lastRefresh, refreshInProgress, defaultModel, now,
                           overlapped, pending, held>>
    /\ UNCHANGED <<call, turn, calc, timer>>

\* checkStatus() resolves: it never throws, an unreachable daemon is a status
CheckStatusDone(isReachable, keep) ==
    /\ awaitingStatus > 0
    /\ awaitingStatus' = awaitingStatus - 1
    /\ IF ~isReachable
       THEN /\ RefreshEnds
            /\ last' = Did("refreshUnreachable", NoModel, "list", FALSE)
            /\ HandOut(keep, FALSE)
            /\ UNCHANGED <<models, lastRefresh, defaultModel, now, awaitingModels, pending>>
       ELSE /\ ~keep
            /\ awaitingModels' = awaitingModels + 1
            /\ last' = Did("refreshFetching", NoModel, "pending", FALSE)
            /\ UNCHANGED <<models, lastRefresh, refreshInProgress, defaultModel, now,
                           overlapped, pending, held>>
    /\ UNCHANGED <<call, turn, calc, timer>>

\* refreshModels firing the change event before it updates the cache
GetModelsDone_FiresFirst(reply, keep) ==
    /\ awaitingModels > 0
    /\ awaitingModels' = awaitingModels - 1
    /\ models' = updateModels(models, ServiceGetModels(reply))
    /\ lastRefresh' = now
    /\ pending' = Detach(pending)
    /\ RefreshEnds
    /\ last' = [Did(IF reply.kind = "list" THEN "refreshApplied"
                    ELSE IF reply.kind = "nolist" THEN "refreshNoList"
                    ELSE "refreshFailed", NoModel, "list", TRUE)
                    EXCEPT !.data = reply.data, !.payload = models]
    /\ HandOut(keep, TRUE)
    /\ UNCHANGED <<defaultModel, now, awaitingStatus>>
    /\ UNCHANGED <<call, turn, calc, timer>>

\* foundryService.getModels() resolves; the rest of the try block and finally
GetModelsDone(reply, keep) ==
    /\ awaitingModels > 0
    /\ awaitingModels' = awaitingModels - 1
    /\ models' = updateModels(models, ServiceGetModels(reply))
    /\ lastRefresh' = now
    /\ pending' = Detach(pending)
    /\ RefreshEnds
    /\ last' = [Did(IF reply.kind = "list" THEN "refreshApplied"
                    ELSE IF reply.kind = "nolist" THEN "refreshNoList"
                    ELSE "refreshFailed", NoModel, "list", TRUE)
                    EXCEPT !.data = reply.data, !.payload = models']
    /\ HandOut(keep, TRUE)
    /\ UNCHANGED <<defaultModel, now, awaitingStatus>>
    /\ UNCHANGED <<call, turn, calc, timer>>

\* ---------------------------------------------------------- load / unload
\* loadModel asking the daemon whatever the cached model's isLoaded says
LoadModel_NoLoadedTest(modelId) ==
    /\ LET i == getModel(models, modelId)
       IN /\ IF i = 0
             THEN /\ last' = Did("loadNotFound", modelId, "raise", FALSE)
                  /\ UNCHANGED pending
             ELSE /\ Cardinality(pending) < MaxPending
                  /\ pending' = pending \cup {[op |-> "load", id |-> modelId, idx |-> i]}
                  /\ last' = Did("loadRequested", modelId, "pending", FALSE)
          /\ UNCHANGED <<models, lastRefresh, refreshInProgress, defaultModel, now,
                         awaitingStatus, awaitingModels, overlapped, held>>
    /\ UNCHANGED <<call, turn, calc, timer>>

\* loadModel(modelId) up to its await
LoadModel(modelId) ==
    /\ LET i == getModel(models, modelId)
       IN /\ IF i = 0
             THEN /\ last' = Did("loadNotFound", modelId, "raise", FALSE)
                  /\ UNCHANGED pending
             ELSE IF models[i].isLoaded
             THEN /\ last' = Did("loadNoop", modelId, "true", FALSE)
                  /\ UNCHANGED pending
             ELSE /\ Cardinality(pending) < MaxPending
                  /\ pending' = pending \cup {[op |-> "load", id |-> modelId, idx |-> i]}
                  /\ last' = Did("loadRequested", modelId, "pending", FALSE)
          /\ UNCHANGED <<models, lastRefresh, refreshInProgress, defaultModel, now,
                         awaitingStatus, awaitingModels, overlapped, held>>
    /\ UNCHANGED <<call, turn, calc, timer>>

\* model.isLoaded = value, on the object the call looked up before its await
SetLoaded(list, t, value) ==
    IF t.idx # 0 THEN [list EXCEPT ![t.idx].isLoaded = value] ELSE list

\* loadModel marking the model loaded whatever the service answered
LoadDone_IgnoresSuccess(t, reply, keep) ==
    /\ LET success == ServiceLoadModel(reply)
       IN /\ t \in pending
          /\ t.op = "load"
          /\ pending' = pending \ {t}
          /\ models' = SetLoaded(models, t, TRUE)
          /\ last' = Fire(IF success THEN "loadSucceeded" ELSE "loadFailed", t.id,
                          IF success THEN "true" ELSE "false", success, models')
          /\ keep => success
          /\ HandOut(keep, FALSE)
          /\ UNCHANGED <<lastRefresh, refreshInProgress, defaultModel, now,
                         awaitingStatus, awaitingModels, overlapped>>
    /\ UNCHANGED <<call, turn, calc, timer>>

\* foundryService.loadModel() resolves (it never throws); the rest of loadModel
LoadDone(t, reply, keep) ==
    /\ LET success == ServiceLoadModel(reply)
       IN /\ t \in pending
          /\ t.op = "load"
          /\ pending' = pending \ {t}
          /\ models' = IF success THEN SetLoaded(models, t, TRUE) ELSE models
          /\ last' = Fire(IF success THEN "loadSucceeded" ELSE "loadFailed", t.id,
                          IF success THEN "true" ELSE "false", success, models')
          /\ keep => success
          /\ HandOut(keep, FALSE)
          /\ UNCHANGED <<lastRefresh, refreshInProgress, defaultModel, now,
                         awaitingStatus, awaitingModels, overlapped>>
    /\ UNCHANGED <<call, turn, calc, timer>>

\* unloadModel(modelId) up to its await
UnloadModel(modelId) ==
    /\ LET i == getModel(models, modelId)
       IN /\ IF i = 0
             THEN /\ last' = Did("unloadNotFound", modelId, "raise", FALSE)
                  /\ UNCHANGED pending
             ELSE IF ~models[i].isLoaded
             THEN /\ last' = Did("unloadNoop", modelId, "true", FALSE)
                  /\ UNCHANGED pending
             ELSE /\ Cardinality(pending) < MaxPending
                  /\ pending' = pending \cup {[op |-> "unload", id |-> modelId, idx |-> i]}
                  /\ last' = Did("unloadRequested", modelId, "pending", FALSE)
          /\ UNCHANGED <<models, lastRefresh, refreshInProgress, defaultModel, now,
                         awaitingStatus, awaitingModels, overlapped, held>>
    /\ UNCHANGED <<call, turn, calc, timer>>

\* foundryService.unloadModel() resolves; the rest of unloadModel
UnloadDone(t, reply, keep) ==
    /\ LET success == ServiceLoadModel(reply)
       IN /\ t \in pending
          /\ t.op = "unload"
          /\ pending' = pending \ {t}
          /\ models' = IF success THEN SetLoaded(models, t, FALSE) ELSE models
          /\ last' = Fire(IF success THEN "unloadSucceeded" ELSE "unloadFailed", t.id,
                          IF success THEN "true" ELSE "false", success, models')
          /\ keep => success
          /\ HandOut(keep, FALSE)
          /\ UNCHANGED <<lastRefresh, refreshInProgress, defaultModel, now,
                         awaitingStatus, awaitingModels, overlapped>>
    /\ UNCHANGED <<call, turn, calc, timer>>

\* ------------------------------------------------------------ set default
\* setDefaultModel writing the configuration without looking the id up
SetDefaultModel_NoLookup(modelId) ==
    /\ Cardinality(pending) < MaxPending
    /\ pending' = pending \cup {[op |-> "setDefault", id |-> modelId, idx |-> 0]}
    /\ last' = Did("defaultRequested", modelId, "pending", FALSE)
    /\ UNCHANGED <<models, lastRefresh, refreshInProgress, defaultModel, now,
                   awaitingStatus, awaitingModels, overlapped, held>>
    /\ UNCHANGED <<call, turn, calc, timer>>

\* setDefaultModel(modelId) up to its await of configManager.setDefaultModel
SetDefaultModel(modelId) ==
    /\ IF getModel(models, modelId) = 0
       THEN /\ last' = Did("defaultNotFound", modelId, "raise", FALSE)
            /\ UNCHANGED pending
       ELSE /\ Cardinality(pending) < MaxPending
            /\ pending' = pending \cup {[op |-> "setDefault", id |-> modelId, idx |-> 0]}
            /\ last' = Did("defaultRequested", modelId, "pending", FALSE)
    /\ UNCHANGED <<models, lastRefresh, refreshInProgress, defaultModel, now,
                   awaitingStatus, awaitingModels, overlapped, held>>
    /\ UNCHANGED <<call, turn, calc, timer>>

\* config.update() settles; when it resolved, the rest of setDefaultModel
SetDefaultDone(t, written, keep) ==
    /\ t \in pending
    /\ t.op = "setDefault"
    /\ pending' = pending \ {t}
    /\ IF written
       THEN /\ defaultModel' = t.id
            /\ models' = markDefault(models, t.id)
            /\ last' = Fire("defaultSet", t.id, "void", TRUE, models')
       ELSE /\ last' = Did("defaultNotWritten", t.id, "raise", FALSE)
            /\ UNCHANGED <<models, defaultModel>>
    /\ keep => written
    /\ HandOut(keep, FALSE)
    /\ UNCHANGED <<lastRefresh, refreshInProgress, now,
                   awaitingStatus, awaitingModels, overlapped>>
    /\ UNCHANGED <<call, turn, calc, timer>>

ClearCache(keep) ==
    /\ models' = <<>>
    /\ lastRefresh' = NoDate
    /\ pending' = Detach(pending)
    /\ last' = Fire("cacheCleared", NoModel, "void", TRUE, models')
    /\ HandOut(keep, TRUE)
    /\ UNCHANGED <<refreshInProgress, defaultModel, now,
                   awaitingStatus, awaitingModels, overlapped>>
    /\ UNCHANGED <<call, turn, calc, timer>>

\* ----------------------------------------------------------------- callers
\* getModels(): [...this.models], a new array of the same model objects
GetModels ==
    /\ held' = "copy"
    /\ last' = Did("getModels", NoModel, "copy", FALSE)
    /\ UNCHANGED <<models, lastRefresh, refreshInProgress, defaultModel, now,
                   awaitingStatus, awaitingModels, overlapped, pending>>
    /\ UNCHANGED <<call, turn, calc, timer>>

\* getDefaultModel(): the model object itself, or undefined
GetDefaultModel ==
    /\ LET i == getDefaultModel(models, defaultModel)
       IN /\ last' = [Did("getDefaultModel", IF i = 0 THEN NoModel ELSE models[i].id,
                          IF i = 0 THEN "undefined" ELSE "model", FALSE)
                          EXCEPT !.at = i]
          /\ UNCHANGED <<models, lastRefresh, refreshInProgress, defaultModel, now,
                         awaitingStatus, awaitingModels, overlapped, pending, held>>
    /\ UNCHANGED <<call, turn, calc, timer>>

\* the user edits the foundryLocal.defaultModel setting
ConfigChanged(value) ==
    /\ defaultModel' = value
    /\ last' = Did("configChanged", value, "void", FALSE)
    /\ UNCHANGED <<models, lastRefresh, refreshInProgress, now,
                   awaitingStatus, awaitingModels, overlapped, pending, held>>
    /\ UNCHANGED <<call, turn, calc, timer>>

\* a caller runs list.pop() on the list it holds: on its own array when the
\* list is a copy, on this.models when it is the array the registry handed out
CallerPops ==
    /\ held # "none"
    /\ Len(models) > 0
    /\ IF held = "alias"
       THEN /\ models' = SubSeq(models, 1, Len(models) - 1)
            /\ pending' = {IF t.idx = Len(models) THEN [t EXCEPT !.idx = 0] ELSE t : t \in pending}
       ELSE UNCHANGED <<models, pending>>
    /\ last' = Did("callerPopped", NoModel, "void", FALSE)
    /\ UNCHANGED <<lastRefresh, refreshInProgress, defaultModel, now,
                   awaitingStatus, awaitingModels, overlapped, held>>
    /\ UNCHANGED <<call, turn, calc, timer>>

\* a caller assigns list[i].isLoaded = value on the list it holds: the model
\* objects of a held list are the registry's own, in a copy as in the array
CallerWrites(i, value) ==
    /\ held # "none"
    /\ i \in 1..Len(models)
    /\ models' = [models EXCEPT ![i].isLoaded = value]
    /\ last' = Did("callerWrote", models[i].id, "void", FALSE)
    /\ UNCHANGED <<lastRefresh, refreshInProgress, defaultModel, now,
                   awaitingStatus, awaitingModels, overlapped, pending, held>>
    /\ UNCHANGED <<call, turn, calc, timer>>

\* -------------------------------------------------------------------- time
Tick ==
    /\ now < MaxTicks * TickMs
    /\ now' = now + TickMs
    /\ last' = Did("tick", NoModel, "void", FALSE)
    /\ UNCHANGED <<models, lastRefresh, refreshInProgress, defaultModel,
                   awaitingStatus, awaitingModels, overlapped, pending, held>>
    /\ UNCHANGED <<call, turn, calc, timer>>

\* ------------------------------------------------------------ TokenCounter
charactersPerToken == 4
messageOverhead == 4

\* Math.ceil(a / b) for a >= 0, b > 0
Ceil(a, b) == (a + b - 1) \div b

\* a text of n characters
TextOfLen(n) == [i \in 1..n |-> "a"]
Texts == {TextOfLen(n) : n \in 0..MaxTextLen}

\* estimateTokens rounding down
estimateTokens_Floor(text) ==
    IF Len(text) = 0 THEN 0 ELSE Len(text) \div charactersPerToken

\* TokenCounter.estimateTokens(text)
estimateTokens(text) ==
    IF Len(text) = 0 THEN 0 ELSE Ceil(Len(text), charactersPerToken)

\* TokenCounter.estimateTokensForMessages(messages)
RECURSIVE estimateTokensForMessages(_)
estimateTokensForMessages(messages) ==
    IF Len(messages) = 0 THEN 0
    ELSE estimateTokens(messages[1].content) + messageOverhead
         + estimateTokensForMessages(Tail(messages))

\* the daemon-format messages whose tokens are counted
FoundryMessage == [role : {"user"}, content : Texts]

\* Number.prototype.toFixed(1) of tokens / unit, in tenths: the nearest tenth
\* to the double tokens / unit. At a decimal tie the double decides: it is the
\* tie itself when the fraction is .25 or .75 (then the larger tenth is
\* taken), and else lies just above or just below it (up says which).
toFixed1(tokens, unit, up) ==
    LET floor == (tokens * 10) \div unit
        rest == (tokens * 10) % unit
    IN  IF 2 * rest < unit THEN floor
        ELSE IF 2 * rest > unit THEN floor + 1
        ELSE IF (tokens * 4) % unit = 0 THEN floor + 1
        ELSE IF up THEN floor + 1 ELSE floor

\* the text `${number}${unit} tokens`: the digits before the point, the digit
\* after it (NoTenth = the number is written without a point) and the unit
NoTenth == -1
TokenText(whole, tenth, unit) == [whole |-> whole, tenth |-> tenth, unit |-> unit]

\* formatTokenCount writing every count of 1000 or more in thousands
formatTokenCount_NoMillions(tokens, up) ==
    IF tokens < 1000 THEN TokenText(tokens, NoTenth, "")
    ELSE LET q == toFixed1(tokens, 1000, up) IN TokenText(q \div 10, q % 10, "K")

\* TokenCounter.formatTokenCount(tokens)
formatTokenCount(tokens, up) ==
    IF tokens < 1000 THEN TokenText(tokens, NoTenth, "")
    ELSE IF tokens < 1000000
    THEN LET q == toFixed1(tokens, 1000, up) IN TokenText(q \div 10, q % 10, "K")
    ELSE LET q == toFixed1(tokens, 1000000, up) IN TokenText(q \div 10, q % 10, "M")

\* the counts formatted: small ones, and multiples of 50, of 1000 and of 50000,
\* and the counts next to the changes of unit
TokenCounts ==
    {c * scale : c \in 0..MaxCount, scale \in {1, 50, 1000, 50000}}
        \cup {999, 999949, 999950, 999999}

\* text.substring(0, end)
substring(text, end) == SubSeq(text, 1, IF end < Len(text) THEN end ELSE Len(text))

\* Math.floor(maxTokens * charactersPerToken * 0.9)
safeCharacterLimit(maxTokens) == (maxTokens * charactersPerToken * 9) \div 10

\* TokenCounter.truncateToTokenLimit(text, maxTokens)
truncateToTokenLimit(text, maxTokens) ==
    IF estimateTokens(text) <= maxTokens THEN text
    ELSE substring(text, safeCharacterLimit(maxTokens)) \o <<".", ".", ".">>

TruncateToTokenLimit(text, maxTokens) ==
    /\ calc = NoCalc
    /\ calc' = [fn |-> "truncateToTokenLimit",
                input |-> [text |-> text, maxTokens |-> maxTokens],
                output |-> truncateToTokenLimit(text, maxTokens)]
    /\ UNCHANGED <<registryVars, call, turn, timer>>

EstimateTokens(text) ==
    /\ calc = NoCalc
    /\ calc' = [fn |-> "estimateTokens", input |-> text, output |-> estimateTokens(text)]
    /\ UNCHANGED <<registryVars, call, turn, timer>>

EstimateTokensForMessages(messages) ==
    /\ calc = NoCalc
    /\ calc' = [fn |-> "estimateTokensForMessages", input |-> messages,
                output |-> estimateTokensForMessages(messages)]
    /\ UNCHANGED <<registryVars, call, turn, timer>>

FormatTokenCount(tokens, up) ==
    /\ calc = NoCalc
    /\ calc' = [fn |-> "formatTokenCount", input |-> tokens,
                output |-> formatTokenCount(tokens, up)]
    /\ UNCHANGED <<registryVars, call, turn, timer>>

\* ------------------------------------------------------ refresh command
\* The REFRESH_MODELS command after its await of refreshModels(true): the
\* count of the cache if the call returned, the error's message if it threw.
refreshCommandShows(ended, list) ==
    IF ended.result = "raise"
    THEN [kind |-> "error", text |-> "Failed to refresh models", found |-> 0]
    ELSE [kind |-> "info", text |-> "Found models", found |-> Len(list)]

\* ------------------------------------------------------ periodic discovery
\* the intervals startPeriodicDiscovery is given: the clock of the model ends
\* before the default of 60000 ms is over
Intervals == {TickMs, refreshInterval}

\* startPeriodicDiscovery(intervalMs): the initial refreshModels() call, then
\* setInterval; calls counts the refreshModels() calls it and its timer made
StartPeriodicDiscovery(intervalMs) ==
    /\ timer = NoTimer
    /\ RefreshCall(FALSE, FALSE)
    /\ timer' = [active |-> TRUE, disposed |-> FALSE, intervalMs |-> intervalMs,
                 since |-> now, due |-> now + intervalMs, calls |-> 1,
                 deactivated |-> FALSE]
    /\ UNCHANGED <<call, turn, calc>>

\* the callback of setInterval: it runs when an interval is over and the
\* timer was not cleared, and the timer is armed for the next interval
TimerFires ==
    /\ timer.active
    /\ now >= timer.due
    /\ RefreshCall(FALSE, FALSE)
    /\ timer' = [timer EXCEPT !.due = @ + timer.intervalMs, !.calls = @ + 1]
    /\ UNCHANGED <<call, turn, calc>>

\* the returned Disposable without its clearInterval
DisposeTimer_NoClear ==
    /\ timer.active
    /\ ~timer.disposed
    /\ timer' = [timer EXCEPT !.disposed = TRUE]
    /\ last' = Did("disposeTimer", NoModel, "void", FALSE)
    /\ UNCHANGED <<models, lastRefresh, refreshInProgress, defaultModel, now,
                   awaitingStatus, awaitingModels, overlapped, pending, held>>
    /\ UNCHANGED <<call, turn, calc>>

\* dispose() of the returned Disposable: clearInterval(timer)
DisposeTimer ==
    /\ timer.active
    /\ ~timer.disposed
    /\ timer' = [timer EXCEPT !.disposed = TRUE, !.active = FALSE]
    /\ last' = Did("disposeTimer", NoModel, "void", FALSE)
    /\ UNCHANGED <<models, lastRefresh, refreshInProgress, defaultModel, now,
                   awaitingStatus, awaitingModels, overlapped, pending, held>>
    /\ UNCHANGED <<call, turn, calc>>

\* the clock advances; a timer that is due runs its callback first
TimerTick ==
    /\ timer.active => now < timer.due
    /\ Tick

\* ------------------------------------------------ activation, deactivation
\* autoStartServices: startPeriodicDiscovery(60000), whose handle stays in a
\* local constant, then refreshModels(), which finds the refresh of
\* startPeriodicDiscovery in progress and returns the cache
AutoStartServices ==
    StartPeriodicDiscovery(discoveryInterval)

\* deactivate(): the factories, the registry's event emitter and the logger
\* are disposed
Deactivate ==
    /\ timer # NoTimer
    /\ ~timer.deactivated
    /\ timer' = [timer EXCEPT !.deactivated = TRUE]
    /\ last' = Did("deactivate", NoModel, "void", FALSE)
    /\ UNCHANGED <<models, lastRefresh, refreshInProgress, defaultModel, now,
                   awaitingStatus, awaitingModels, overlapped, pending, held>>
    /\ UNCHANGED <<call, turn, calc>>

\* a discovery interval passes; a timer that is due runs its callback first
IntervalPasses ==
    /\ timer.active => now < timer.due
    /\ now < MaxTicks * discoveryInterval
    /\ now' = now + discoveryInterval
    /\ last' = Did("tick", NoModel, "void", FALSE)
    /\ UNCHANGED <<models, lastRefresh, refreshInProgress, defaultModel,
                   awaitingStatus, awaitingModels, overlapped, pending, held>>
    /\ UNCHANGED <<call, turn, calc, timer>>

\* ------------------------------------------------- FoundryLocalService
\* A call of a service method, step by step: makeRequest's attempts and
\* waits, then the method's own handling of the response or of the error
\* makeRequest threw.
Methods == {"checkStatus", "getModels", "loadModel", "unloadModel"}

\* fetch rejected: the connection failed, or the AbortController's timer fired
FetchErrors == {"network", "timeout"}

\* the wait that grows by the attempt number, not by its power of two
backoffDelay_Linear(attempt) == (attempt + 1) * 1000

\* Math.pow(2, attempt) * 1000
backoffDelay(attempt) == (2 ^ attempt) * 1000

\* the status checkStatus returns in its else branch and in its catch block
UnreachableStatus ==
    [isRunning |-> FALSE, isReachable |-> FALSE, loadedModels |-> 0, totalModels |-> 0]

\* data.loadedModels || 0 of the /health payload
ReachableStatus(data) ==
    [isRunning |-> TRUE, isReachable |-> TRUE,
     loadedModels |-> data.loadedModels, totalModels |-> data.totalModels]

HealthData == [loadedModels : 0..1, totalModels : 0..1]

\* what each method makes of makeRequest throwing: every catch block
\* returns, none rethrows
Caught(method) ==
    IF method = "checkStatus" THEN [how |-> "return", value |-> UnreachableStatus]
    ELSE IF method = "getModels"
    THEN [how |-> "return", value |-> ServiceGetModels([kind |-> "neterr", data |-> <<>>])]
    ELSE [how |-> "return", value |-> ServiceLoadModel("neterr")]

\* a service method is called: makeRequest reads config.maxRetries and starts
\* its first fetch
CallService(method, maxRetries) ==
    /\ call.phase \in {"idle", "done"}
    /\ call' = [NoCall EXCEPT !.method = method, !.maxRetries = maxRetries,
                              !.phase = "fetching"]
    /\ UNCHANGED <<registryVars, turn, calc, timer>>

\* fetch rejects: the catch block of makeRequest, and when the loop is over
\* the throw and the catch block of the method that called
FetchFails(kind) ==
    /\ call.phase = "fetching"
    /\ LET lastError == [attempt |-> call.attempt, kind |-> kind]
           errors == Append(call.errors, kind)
       IN IF call.attempt < call.maxRetries
          THEN call' = [call EXCEPT !.errors = errors,
                                    !.waits = Append(@, backoffDelay(call.attempt)),
                                    !.phase = "waiting"]
          ELSE call' = [call EXCEPT !.errors = errors,
                                    !.phase = "done",
                                    !.raised = lastError,
                                    !.answer = "neterr",
                                    !.result = Caught(call.method)]
    /\ UNCHANGED <<registryVars, turn, calc, timer>>

\* the backoff timer fires: attempt++ and the next fetch
BackoffEnds ==
    /\ call.phase = "waiting"
    /\ call' = [call EXCEPT !.attempt = @ + 1, !.phase = "fetching"]
    /\ UNCHANGED <<registryVars, turn, calc, timer>>

\* GET /health is answered; the rest of checkStatus (valid: the body is JSON)
HealthResponds(ok, valid, data) ==
    /\ call.phase = "fetching"
    /\ call.method = "checkStatus"
    /\ call' = [call EXCEPT
                  !.phase = "done",
                  !.answer = IF ~ok THEN "nonok" ELSE IF valid THEN "ok" ELSE "badjson",
                  !.result = [how |-> "return",
                              value |-> IF ok /\ valid THEN ReachableStatus(data)
                                        ELSE UnreachableStatus]]
    /\ UNCHANGED <<registryVars, turn, calc, timer>>

\* GET /models is answered; the rest of getModels
ModelsResponds(reply) ==
    /\ call.phase = "fetching"
    /\ call.method = "getModels"
    /\ reply.kind # "neterr"
    /\ call' = [call EXCEPT !.phase = "done",
                            !.answer = reply.kind,
                            !.result = [how |-> "return", value |-> ServiceGetModels(reply)]]
    /\ UNCHANGED <<registryVars, turn, calc, timer>>

\* POST /models/load or /models/unload is answered; the rest of loadModel or
\* unloadModel
LoadResponds(reply) ==
    /\ call.phase = "fetching"
    /\ call.method \in {"loadModel", "unloadModel"}
    /\ reply # "neterr"
    /\ call' = [call EXCEPT !.phase = "done",
                            !.answer = reply,
                            !.result = [how |-> "return", value |-> ServiceLoadModel(reply)]]
    /\ UNCHANGED <<registryVars, turn, calc, timer>>

\* --------------------------------------------- FoundryLocalChatProvider
\* a chunk of the stream: its choices[0].delta.content is text, or is missing
ChunkKinds == {"text", "empty"}
Streams == SeqsUpTo(ChunkKinds, MaxChunks)

\* the stream is over by [DONE] or the end of the body, or by an error
StreamEndings == {"end", "error"}

\* response.markdown(...): chunk number at of the stream, or a message
Wrote(kind, at) == [kind |-> kind, at |-> at]

\* FoundryLocalChatProvider.getDefaultModel over the cache and the setting:
\* the place of the model, 0 for undefined
providerGetDefaultModel(list, configured) ==
    LET byId == Find({i \in 1..Len(list) : list[i].id = configured})
        loaded == Find({i \in 1..Len(list) : list[i].isLoaded})
    IN IF configured # NoModel /\ byId # 0 /\ list[byId].isLoaded THEN byId
       ELSE IF loaded # 0 THEN loaded
       ELSE IF Len(list) > 0 THEN 1
       ELSE 0

\* handleChatRequest sending the request whatever the model's isLoaded says
HandleChatRequest_NoLoadedTest(stream, ending) ==
    /\ turn.phase \in {"idle", "done"}
    /\ LET m == providerGetDefaultModel(models, defaultModel)
       IN IF m = 0
          THEN turn' = [NoTurn EXCEPT !.phase = "done", !.outcome = "return",
                                     !.sink = <<Wrote("noModel", 0)>>]
          ELSE turn' = [NoTurn EXCEPT !.phase = "connecting", !.requests = 1,
                                     !.stream = stream, !.ending = ending,
                                     !.model = models[m].id]
    /\ UNCHANGED <<registryVars, call, calc, timer>>

\* handleChatRequest up to the first await, the POST of the generator
HandleChatRequest(stream, ending) ==
    /\ turn.phase \in {"idle", "done"}
    /\ LET m == providerGetDefaultModel(models, defaultModel)
       IN IF m = 0
          THEN turn' = [NoTurn EXCEPT !.phase = "done", !.outcome = "return",
                                     !.sink = <<Wrote("noModel", 0)>>]
          ELSE IF ~models[m].isLoaded
          THEN turn' = [NoTurn EXCEPT !.phase = "done", !.outcome = "return",
                                     !.sink = <<Wrote("notLoaded", 0)>>]
          ELSE turn' = [NoTurn EXCEPT !.phase = "connecting", !.requests = 1,
                                     !.stream = stream, !.ending = ending,
                                     !.model = models[m].id]
    /\ UNCHANGED <<registryVars, call, calc, timer>>

\* the generator threw: the catch block of sendChatRequest rethrows and the
\* catch block of handleChatRequest writes the error to the response
Failed(t) ==
    [t EXCEPT !.phase = "done", !.outcome = "return", !.failed = TRUE,
              !.sink = Append(@, Wrote("error", 0))]

\* the POST settles: the body starts to stream, or the generator throws
ConnectDone(ok) ==
    /\ turn.phase = "connecting"
    /\ turn' = IF ok THEN [turn EXCEPT !.phase = "streaming"] ELSE Failed(turn)
    /\ UNCHANGED <<registryVars, call, calc, timer>>

\* the loop body of sendChatRequest forwarding without a look at the token
ChunkArrives_NoCancelTest ==
    /\ turn.phase = "streaming"
    /\ turn.read < Len(turn.stream)
    /\ LET n == turn.read + 1
       IN IF turn.stream[n] = "text"
          THEN turn' = [turn EXCEPT !.read = n, !.sink = Append(@, Wrote("chunk", n))]
          ELSE turn' = [turn EXCEPT !.read = n]
    /\ UNCHANGED <<registryVars, call, calc, timer>>

\* the generator yields a chunk: the loop body of sendChatRequest
ChunkArrives ==
    /\ turn.phase = "streaming"
    /\ turn.read < Len(turn.stream)
    /\ LET n == turn.read + 1
       IN IF turn.cancelled
          THEN turn' = [turn EXCEPT !.read = n, !.phase = "done", !.outcome = "return"]
          ELSE IF turn.stream[n] = "text"
          THEN turn' = [turn EXCEPT !.read = n, !.sink = Append(@, Wrote("chunk", n))]
          ELSE turn' = [turn EXCEPT !.read = n]
    /\ UNCHANGED <<registryVars, call, calc, timer>>

\* the generator returns: the loop is over and handleChatRequest returns
StreamEnds ==
    /\ turn.phase = "streaming"
    /\ turn.read = Len(turn.stream)
    /\ turn.ending = "end"
    /\ turn' = [turn EXCEPT !.phase = "done", !.outcome = "return"]
    /\ UNCHANGED <<registryVars, call, calc, timer>>

\* the error of the stream raised to the host instead of written
StreamFails_Rethrows ==
    /\ turn.phase = "streaming"
    /\ turn.read = Len(turn.stream)
    /\ turn.ending = "error"
    /\ turn' = [turn EXCEPT !.phase = "done", !.outcome = "raise", !.failed = TRUE]
    /\ UNCHANGED <<registryVars, call, calc, timer>>

\* the body of the response breaks: the generator throws
StreamFails ==
    /\ turn.phase = "streaming"
    /\ turn.read = Len(turn.stream)
    /\ turn.ending = "error"
    /\ turn' = Failed(turn)
    /\ UNCHANGED <<registryVars, call, calc, timer>>

\* the host cancels the turn: token.isCancellationRequested turns true
CancelRequested ==
    /\ turn.phase \in {"connecting", "streaming"}
    /\ ~turn.cancelled
    /\ turn' = [turn EXCEPT !.cancelled = TRUE, !.cancelledAt = turn.read]
    /\ UNCHANGED <<registryVars, call, calc, timer>>

\* ------------------------------------ FoundryLanguageModelChatProvider
\* A response of the language model provider: streamChatRequest of the
\* service, its POST through makeRequest, then the reads of the body. The
\* stream of the response is the lines of the body read so far.
\* A line of the body: "data: " with a chunk that has text, with something
\* JSON.parse rejects, or with [DONE]
LineKinds == {"text", "malformed", "done"}

\* what one reader.read() can deliver: complete lines, at least one
Reads == SeqsUpTo(LineKinds, MaxChunks) \ {<<>>}

\* the places from..to of the lines of one read that reach onChunk when a
\* line that does not parse ends the read
Chunks_MalformedEndsRead(lines, from, to) ==
    SelectSeq([i \in 1..(to - from + 1) |-> from + i - 1],
              LAMBDA k : lines[k] = "text" /\ \A j \in from..(k - 1) : lines[j] = "text")

\* the places from..to of the lines of one read that reach onChunk: a line
\* with text, up to the first [DONE] of the read, where the for loop over the
\* lines breaks
Chunks(lines, from, to) ==
    SelectSeq([i \in 1..(to - from + 1) |-> from + i - 1],
              LAMBDA k : lines[k] = "text" /\ \A j \in from..(k - 1) : lines[j] # "done")

\* onError(error): the provider rejects the promise it returned
Rejected(t) == [t EXCEPT !.phase = "done", !.outcome = "raise", !.failed = TRUE]

\* provideLanguageModelChatResponse up to the first fetch of makeRequest
ProvideResponse(isLoaded, maxRetries) ==
    /\ turn.phase \in {"idle", "done"}
    /\ turn' = IF ~isLoaded
               THEN [NoTurn EXCEPT !.phase = "done", !.outcome = "raise"]
               ELSE [NoTurn EXCEPT !.phase = "connecting", !.requests = 1,
                                   !.maxRetries = maxRetries]
    /\ UNCHANGED <<registryVars, call, calc, timer>>

\* fetch rejects: the catch block of makeRequest; when the loop is over the
\* throw, the catch block of streamChatRequest and onError
ConnectFails ==
    /\ turn.phase = "connecting"
    /\ turn' = IF turn.requests - 1 < turn.maxRetries
               THEN [turn EXCEPT !.phase = "waiting"]
               ELSE Rejected(turn)
    /\ UNCHANGED <<registryVars, call, calc, timer>>

\* the backoff timer of makeRequest fires: the next fetch
ConnectRetries ==
    /\ turn.phase = "waiting"
    /\ turn' = [turn EXCEPT !.phase = "connecting", !.requests = @ + 1]
    /\ UNCHANGED <<registryVars, call, calc, timer>>

\* fetch resolves: a status that is not ok is thrown to onError, else the
\* reader is taken
Connected(ok) ==
    /\ turn.phase = "connecting"
    /\ turn' = IF ok THEN [turn EXCEPT !.phase = "streaming"] ELSE Rejected(turn)
    /\ UNCHANGED <<registryVars, call, calc, timer>>

\* reader.read() resolves with bytes: the lines of the read, each text chunk
\* given to onChunk, which reports it unless the token is cancelled
ReadArrives(lines) ==
    /\ turn.phase = "streaming"
    /\ Len(turn.stream) + Len(lines) <= MaxChunks
    /\ LET body == turn.stream \o lines
           chunks == Chunks(body, turn.read + 1, Len(body))
       IN turn' = [turn EXCEPT
                     !.stream = body,
                     !.read = Len(body),
                     !.sink = IF turn.cancelled THEN @
                              ELSE @ \o [i \in 1..Len(chunks) |-> Wrote("chunk", chunks[i])]]
    /\ UNCHANGED <<registryVars, call, calc, timer>>

\* reader.read() resolves with done: onComplete, the provider resolves
BodyEnds ==
    /\ turn.phase = "streaming"
    /\ turn' = [turn EXCEPT !.phase = "done", !.outcome = "return", !.ending = "end"]
    /\ UNCHANGED <<registryVars, call, calc, timer>>

\* a read failure answered by a new request for the stream
ReadFails_Reconnects ==
    /\ turn.phase = "streaming"
    /\ turn.requests <= turn.maxRetries
    /\ turn' = [turn EXCEPT !.requests = @ + 1, !.ending = "error"]
    /\ UNCHANGED <<registryVars, call, calc, timer>>

\* reader.read() rejects: finally, the catch block and onError
ReadFails ==
    /\ turn.phase = "streaming"
    /\ turn' = [Rejected(turn) EXCEPT !.ending = "error"]
    /\ UNCHANGED <<registryVars, call, calc, timer>>

\* the host cancels the response: token.isCancellationRequested turns true
ResponseCancelled ==
    /\ turn.phase \in {"connecting", "waiting", "streaming"}
    /\ ~turn.cancelled
    /\ turn' = [turn EXCEPT !.cancelled = TRUE, !.cancelledAt = turn.read]
    /\ UNCHANGED <<registryVars, call, calc, timer>>

\* ------------------------------------------------------ chat messages
\* Texts are sequences of characters; "nl" is the newline.
Word == <<"a">>
Blank == <<" ">>

\* String.prototype.trim() leaves nothing: only white space
IsBlank(text) == \A i \in 1..Len(text) : text[i] \in {" ", "nl"}

\* Array.prototype.join
RECURSIVE Join(_, _)
Join(texts, sep) ==
    IF Len(texts) = 0 THEN <<>>
    ELSE IF Len(texts) = 1 THEN texts[1]
    ELSE texts[1] \o sep \o Join(Tail(texts), sep)

\* the parts of a ChatResponseTurn: markdown parts and others (anchors, buttons)
ResponsePart ==
    {[type |-> "markdown", value |-> Word], [type |-> "markdown", value |-> Blank],
     [type |-> "other", value |-> Word]}

\* the turns of context.history
HistoryTurn ==
    [kind : {"request"}, prompt : {Word, <<>>}, response : {<<>>}]
        \cup [kind : {"response"}, prompt : {<<>>}, response : SeqsUpTo(ResponsePart, MaxParts)]

\* vscode.LanguageModelChatMessage.User(text) / .Assistant(text)
ChatMessage(role, text) ==
    [role |-> role, content |-> <<[type |-> "text", value |-> text]>>]

\* responseText of a ChatResponseTurn: the markdown parts' values, joined
responseText(t) ==
    Join([i \in 1..Len(t.response) |->
            IF t.response[i].type = "markdown" THEN t.response[i].value ELSE <<>>], <<>>)

\* the loop body pushing a message for a blank response too
turnMessages_KeepsBlank(t) ==
    IF t.kind = "request" THEN <<ChatMessage("user", t.prompt)>>
    ELSE <<ChatMessage("assistant", responseText(t))>>

\* the loop body of createMessagesFromContext: the messages pushed for a turn
turnMessages(t) ==
    IF t.kind = "request" THEN <<ChatMessage("user", t.prompt)>>
    ELSE IF ~IsBlank(responseText(t)) THEN <<ChatMessage("assistant", responseText(t))>>
    ELSE <<>>

\* FoundryLocalChatProvider.createMessagesFromContext
createMessagesFromContext(history, prompt) ==
    Join([i \in 1..Len(history) |-> turnMessages(history[i])], <<>>)
        \o <<ChatMessage("user", prompt)>>

\* the text parts of a message's content, in order
TextValues(content) ==
    LET texts == SelectSeq(content, LAMBDA part : part.type = "text")
    IN [i \in 1..Len(texts) |-> texts[i].value]

\* FoundryLocalChatProvider.convertMessagesToFoundryFormat, for one message
convertMessageToFoundryFormat(message) ==
    [role |-> IF message.role = "user" THEN "user" ELSE "assistant",
     content |-> Join(TextValues(message.content), <<"nl">>)]

convertMessagesToFoundryFormat(messages) ==
    [i \in 1..Len(messages) |-> convertMessageToFoundryFormat(messages[i])]

\* FoundryLanguageModelChatProvider.extractMessageContent, for a content
\* that is an array of parts
extractMessageContent(message) ==
    Join([i \in 1..Len(message.content) |->
            IF message.content[i].type = "text" THEN message.content[i].value ELSE <<>>], <<>>)

\* the parts of a host message: text parts and others (tool calls, results)
MessagePart == [type : {"text", "other"}, value : {Word, <<"b">>}]
HostMessage == [role : {"user", "assistant"}, content : SeqsUpTo(MessagePart, MaxParts)]

\* context.history: the turns of the conversation so far
History == SeqsUpTo(HistoryTurn, MaxTurns)

\* handleChatRequest builds the daemon's message list for a turn
BuildMessages(history, prompt) ==
    /\ calc = NoCalc
    /\ calc' = [fn |-> "buildMessages",
                input |-> [history |-> history, prompt |-> prompt],
                output |-> convertMessagesToFoundryFormat(
                               createMessagesFromContext(history, prompt))]
    /\ UNCHANGED <<registryVars, call, turn, timer>>

\* one host message is converted to the daemon's format
ConvertMessage(message) ==
    /\ calc = NoCalc
    /\ calc' = [fn |-> "convertMessage", input |-> message,
                output |-> convertMessageToFoundryFormat(message)]
    /\ UNCHANGED <<registryVars, call, turn, timer>>

\* the content of one host message is extracted for the streaming request
ExtractContent(message) ==
    /\ calc = NoCalc
    /\ calc' = [fn |-> "extractContent", input |-> message,
                output |-> extractMessageContent(message)]
    /\ UNCHANGED <<registryVars, call, turn, timer>>

\* --------------------------------------------------------- specifications
\* the daemon's answers when only the arbitration of refreshes is looked at
ShortReply ==
    [kind : {"neterr", "nonok", "nolist"}, data : {<<>>}]
        \cup [kind : {"list"}, data : {<<>>, <<[id |-> "m1", isLoaded |-> "true", isDefault |-> "absent"]>>}]

\* the daemon's answers that carry no isDefault field
PlainReply == {r \in ModelsReply : \A i \in 1..Len(r.data) : r.data[i].isDefault = "absent"}

\* The registry's operations on its cache as the extension's commands call
\* them; refreshes one at a time.
Next ==
    \/ \E force \in BOOLEAN : inFlight = 0 /\ RefreshModels(force, FALSE)
    \/ \E isReachable \in BOOLEAN : CheckStatusDone(isReachable, FALSE)
    \/ \E reply \in ModelsReply : GetModelsDone(reply, FALSE)
    \/ \E modelId \in Ids : LoadModel(modelId)
    \/ \E t \in pending, reply \in LoadReply : LoadDone(t, reply, FALSE)
    \/ \E modelId \in Ids : UnloadModel(modelId)
    \/ \E t \in pending, reply \in LoadReply : UnloadDone(t, reply, FALSE)
    \/ \E modelId \in Ids : SetDefaultModel(modelId)
    \/ \E t \in pending, written \in BOOLEAN : SetDefaultDone(t, written, FALSE)

Spec == Init /\ [][Next]_vars

\* The arbitration of refreshModels calls: forced and non-forced calls and
\* the periodic timer's calls, overlapping, while the clock advances.
NextRefresh ==
    \/ \E force \in BOOLEAN : RefreshModels(force, FALSE)
    \/ \E isReachable \in BOOLEAN : CheckStatusDone(isReachable, FALSE)
    \/ \E reply \in ShortReply : GetModelsDone(reply, FALSE)
    \/ Tick

SpecRefresh == Init /\ [][NextRefresh]_vars

\* The same, with every request to the daemon settling: makeRequest gives up
\* after its timeout and its retries, so checkStatus() and getModels() resolve.
SpecRefreshLive ==
    /\ Init
    /\ [][NextRefresh]_vars
    /\ WF_vars(\E isReachable \in BOOLEAN : CheckStatusDone(isReachable, FALSE))
    /\ WF_vars(\E reply \in ShortReply : GetModelsDone(reply, FALSE))

\* the daemon's answers about one model, loaded or not, and the failures
QuietReply ==
    ShortReply \cup [kind : {"list"},
                     data : {<<[id |-> "m1", isLoaded |-> "absent", isDefault |-> "absent"]>>}]

\* Refreshes, one at a time, and the calls made while one is in flight, with
\* loads and unloads, while the clock advances.
NextQuiet ==
    \/ \E force \in BOOLEAN : (force => inFlight = 0) /\ RefreshModels(force, FALSE)
    \/ \E isReachable \in BOOLEAN : CheckStatusDone(isReachable, FALSE)
    \/ \E reply \in QuietReply : GetModelsDone(reply, FALSE)
    \/ \E modelId \in Ids : LoadModel(modelId)
    \/ \E t \in pending, reply \in LoadReply : LoadDone(t, reply, FALSE)
    \/ \E modelId \in Ids : UnloadModel(modelId)
    \/ \E t \in pending, reply \in LoadReply : UnloadDone(t, reply, FALSE)
    \/ Tick

SpecQuiet == Init /\ [][NextQuiet]_vars

\* Loading, unloading and clearCache against refreshes of a daemon that names
\* no default.
NextLoad ==
    \/ inFlight = 0 /\ RefreshModels(TRUE, FALSE)
    \/ \E isReachable \in BOOLEAN : CheckStatusDone(isReachable, FALSE)
    \/ \E reply \in PlainReply : GetModelsDone(reply, FALSE)
    \/ \E modelId \in Ids : LoadModel(modelId)
    \/ \E t \in pending, reply \in LoadReply : LoadDone(t, reply, FALSE)
    \/ \E modelId \in Ids : UnloadModel(modelId)
    \/ \E t \in pending, reply \in LoadReply : UnloadDone(t, reply, FALSE)
    \/ ClearCache(FALSE)

SpecLoad == Init /\ [][NextLoad]_vars

\* the answers with at most two models, and the failures
SmallReply == {r \in PlainReply : Len(r.data) <= 2}

\* The model commands of the extension (load, unload, set default) against
\* forced refreshes of a daemon that names no default.
NextCommands ==
    \/ inFlight = 0 /\ RefreshModels(TRUE, FALSE)
    \/ \E isReachable \in BOOLEAN : CheckStatusDone(isReachable, FALSE)
    \/ \E reply \in SmallReply : GetModelsDone(reply, FALSE)
    \/ \E modelId \in Ids : LoadModel(modelId)
    \/ \E t \in pending, reply \in LoadReply : LoadDone(t, reply, FALSE)
    \/ \E modelId \in Ids : UnloadModel(modelId)
    \/ \E t \in pending, reply \in LoadReply : UnloadDone(t, reply, FALSE)
    \/ \E modelId \in Ids : SetDefaultModel(modelId)
    \/ \E t \in pending, written \in BOOLEAN : SetDefaultDone(t, written, FALSE)

SpecCommands == Init /\ [][NextCommands]_vars

\* The calls of the service's methods against a daemon that answers, answers
\* with an error status, or cannot be reached within the timeout.
NextService ==
    \/ \E method \in Methods, maxRetries \in 0..MaxRetryLimit : CallService(method, maxRetries)
    \/ \E kind \in FetchErrors : FetchFails(kind)
    \/ BackoffEnds
    \/ \E ok \in BOOLEAN, valid \in BOOLEAN, data \in HealthData : HealthResponds(ok, valid, data)
    \/ \E reply \in ShortReply : ModelsResponds(reply)
    \/ \E reply \in LoadReply : LoadResponds(reply)

SpecService == Init /\ [][NextService]_vars

\* the daemon's catalogs of at most two models, loaded or not
CatalogReply == {r \in SmallReply : r.kind = "list"}

\* Chat turns, one at a time, over the caches that refreshes leave behind.
NextChat ==
    \/ inFlight = 0 /\ RefreshModels(TRUE, FALSE)
    \/ CheckStatusDone(TRUE, FALSE)
    \/ \E reply \in CatalogReply : GetModelsDone(reply, FALSE)
    \/ \E stream \in Streams, ending \in StreamEndings : HandleChatRequest(stream, ending)
    \/ \E ok \in BOOLEAN : ConnectDone(ok)
    \/ ChunkArrives
    \/ StreamEnds
    \/ StreamFails
    \/ CancelRequested

SpecChat == Init /\ [][NextChat]_vars

\* Periodic discovery: the extension starts it once, the timer calls
\* refreshModels() while the clock advances, until the handle is disposed.
NextTimer ==
    \/ \E intervalMs \in Intervals : StartPeriodicDiscovery(intervalMs)
    \/ TimerFires
    \/ DisposeTimer
    \/ TimerTick
    \/ \E isReachable \in BOOLEAN : CheckStatusDone(isReachable, FALSE)
    \/ \E reply \in ShortReply : GetModelsDone(reply, FALSE)

SpecTimer == Init /\ [][NextTimer]_vars

\* The extension from its activation on: periodic discovery started by
\* autoStartServices, the timer's calls as the minutes pass, deactivation.
NextActivation ==
    \/ AutoStartServices
    \/ TimerFires
    \/ Deactivate
    \/ IntervalPasses
    \/ \E isReachable \in BOOLEAN : CheckStatusDone(isReachable, FALSE)
    \/ \E reply \in ShortReply : GetModelsDone(reply, FALSE)

SpecActivation == Init /\ [][NextActivation]_vars

\* The token estimates and their display.
NextTokens ==
    \/ calc = NoCalc /\ \E text \in Texts : EstimateTokens(text)
    \/ calc = NoCalc /\ \E messages \in SeqsUpTo(FoundryMessage, MaxMessages) :
            EstimateTokensForMessages(messages)
    \/ calc = NoCalc /\ \E tokens \in TokenCounts, up \in BOOLEAN :
            FormatTokenCount(tokens, up)
    \/ calc = NoCalc /\ \E text \in Texts, maxTokens \in 0..MaxTokenLimit :
            TruncateToTokenLimit(text, maxTokens)

SpecTokens == Init /\ [][NextTokens]_vars

\* Responses of the language model provider, one at a time.
NextStream ==
    \/ \E isLoaded \in BOOLEAN, maxRetries \in 0..MaxRetryLimit :
            ProvideResponse(isLoaded, maxRetries)
    \/ ConnectFails
    \/ ConnectRetries
    \/ \E ok \in BOOLEAN : Connected(ok)
    \/ \E lines \in Reads : ReadArrives(lines)
    \/ BodyEnds
    \/ ReadFails
    \/ ResponseCancelled

SpecStream == Init /\ [][NextStream]_vars

\* The conversions of chat histories and host messages.
NextMessages ==
    \/ calc = NoCalc /\ \E history \in History, prompt \in {Word, <<>>} :
            BuildMessages(history, prompt)
    \/ calc = NoCalc /\ \E message \in HostMessage : ConvertMessage(message)
    \/ calc = NoCalc /\ \E message \in HostMessage : ExtractContent(message)

SpecMessages == Init /\ [][NextMessages]_vars

\* Resolving the default model over every cache and setting.
NextDefault ==
    \/ inFlight = 0 /\ RefreshModels(TRUE, FALSE)
    \/ CheckStatusDone(TRUE, FALSE)
    \/ \E reply \in ModelsReply : GetModelsDone(reply, FALSE)
    \/ \E value \in Ids \cup {NoModel} : ConfigChanged(value)
    \/ GetDefaultModel

SpecDefault == Init /\ [][NextDefault]_vars

\* Callers that keep the lists the registry hands out and write to them.
NextCaller ==
    \/ inFlight = 0 /\ RefreshModels(TRUE, FALSE)
    \/ CheckStatusDone(TRUE, FALSE)
    \/ \E reply \in PlainReply, keep \in BOOLEAN : GetModelsDone(reply, keep)
    \/ \E modelId \in Ids : SetDefaultModel(modelId)
    \/ \E t \in pending, keep \in BOOLEAN : SetDefaultDone(t, TRUE, keep)
    \/ GetModels
    \/ CallerPops
    \/ \E i \in 1..MaxModels, value \in BOOLEAN : CallerWrites(i, value)

SpecCaller == Init /\ [][NextCaller]_vars

\* ------------------------------------------------------------------ claims
Defaults == {i \in 1..Len(models) : models[i].isDefault}

FailedRefresh == {"refreshUnreachable", "refreshFailed"}

\* C1 (as claimed): a refresh that fails, at the status probe or at the
\* list-models request, returns this.models and leaves the cache as it was.
C1_FailedRefreshKeepsCache ==
    [][last'.op \in FailedRefresh => (models' = models /\ last'.result = "list")]_vars

C3_NonForcedStartsOnlyWhenIdle == last.op = "refreshStarted" => inFlight = 1

\* C4 (as claimed): at most one cached model has isDefault = true.
C4_AtMostOneDefault == Cardinality(Defaults) <= 1

\* C5 (as claimed): right after setDefaultModel(id) succeeded, getDefaultModel()
\* is the model with that id and no model with another id is flagged.
C5_DefaultIsTheOneSet ==
    last.op = "defaultSet" =>
        LET i == getDefaultModel(models, defaultModel)
        IN /\ i # 0
           /\ models[i].id = last.id
           /\ \A j \in Defaults : models[j].id = last.id

\* C6 (as claimed): a model is flagged default after a step and no model of
\* its id was before only when the step is a set-default that succeeded.
C6_DefaultOnlyBySetDefault ==
    [][(\E i \in 1..Len(models') :
            /\ models'[i].isDefault
            /\ ~\E j \in 1..Len(models) : models[j].id = models'[i].id /\ models[j].isDefault)
        => last'.op = "defaultSet"]_vars

ReplacesCache == {"refreshApplied", "refreshNoList", "refreshFailed", "cacheCleared"}

\* C7: isLoaded of a cached model turns true only in a load of it that
\* succeeded, false only in an unload of it that succeeded, and is otherwise
\* what the applied refresh answer reports; a failed load or unload changes
\* nothing of the cache.
C7_LoadedFollowsLoadUnloadRefresh ==
    [][/\ last'.op \in {"loadFailed", "unloadFailed"} => models' = models
       /\ last'.op \notin ReplacesCache =>
            /\ Len(models') = Len(models)
            /\ \A i \in 1..Len(models) :
                /\ models'[i].id = models[i].id
                /\ (~models[i].isLoaded /\ models'[i].isLoaded)
                      => (last'.op = "loadSucceeded" /\ last'.id = models[i].id)
                /\ (models[i].isLoaded /\ ~models'[i].isLoaded)
                      => (last'.op = "unloadSucceeded" /\ last'.id = models[i].id)
       /\ last'.op = "refreshApplied" =>
            /\ Len(models') = Len(last'.data)
            /\ \A i \in 1..Len(models') :
                /\ models'[i].id = last'.data[i].id
                /\ models'[i].isLoaded = (last'.data[i].isLoaded = "true")]_vars

\* C7 witness: a load succeeded and its model is now cached as loaded.
C7_Witness ==
    /\ last.op = "loadSucceeded"
    /\ \E i \in 1..Len(models) : models[i].id = last.id /\ models[i].isLoaded

Writes == {"callerPopped", "callerWrote"}

\* C8 (as claimed): nothing a caller does to a list getModels() returned, or
\* to the model records in it, changes the cache.
C8_CopyIsDetached == [][(held = "copy" /\ last'.op \in Writes) => models' = models]_vars

\* C9 (as claimed): nothing a caller does to the list refreshModels() returned
\* or to the list a change notification carried changes the cache.
C9_HandedOutListIsDetached ==
    [][(held = "alias" /\ last'.op \in Writes) => models' = models]_vars

Least(S) == CHOOSE i \in S : \A j \in S : i <= j

LoadCalls == {"loadNotFound", "loadNoop", "loadRequested"}
UnloadCalls == {"unloadNotFound", "unloadNoop", "unloadRequested"}
DefaultCalls == {"defaultNotFound", "defaultRequested"}

Mutations ==
    {"refreshApplied", "refreshNoList", "refreshFailed",
     "loadSucceeded", "unloadSucceeded", "defaultSet"}

\* C13: a refresh, load, unload or set-default that changes the cache fires
\* the change event, and every change event carries the whole cache as it
\* is once the step's update is done.
C13_FiresAfterTheUpdate ==
    [][/\ (last'.op \in Mutations /\ models' # models) => last'.fired
       /\ last'.fired => last'.payload = models']_vars

\* C13 witness: a refresh put two models into the cache and fired with that
\* list.
C13_Witness ==
    /\ last.op = "refreshApplied"
    /\ last.fired
    /\ Len(models) = 2
    /\ last.payload = models

\* makeRequest threw: every attempt of the call failed
AllAttemptsFailed == call.phase = "done" /\ call.raised # NoError

\* C14: when every attempt of a request fails and maxRetries is N, N + 1
\* attempts were made, the wait after failed attempt i (from 0) was
\* 2^i * 1000 ms for i < N, no wait followed the last attempt, and the error
\* makeRequest throws is the one of the last attempt; for N = 3 the waits
\* are 1 s, 2 s and 4 s.
C14_RetrySchedule ==
    AllAttemptsFailed =>
        /\ Len(call.errors) = call.maxRetries + 1
        /\ call.waits = [i \in 1..call.maxRetries |-> (2 ^ (i - 1)) * 1000]
        /\ call.raised = [attempt |-> call.maxRetries,
                          kind |-> call.errors[call.maxRetries + 1]]
        /\ call.maxRetries = 3 => call.waits = <<1000, 2000, 4000>>

\* C14 witness: with maxRetries = 3 four attempts failed, the last one
\* otherwise than the first, after waits of 1 s, 2 s and 4 s.
C14_Witness ==
    /\ AllAttemptsFailed
    /\ call.maxRetries = 3
    /\ Len(call.errors) = 4
    /\ call.errors[4] # call.errors[1]
    /\ call.waits = <<1000, 2000, 4000>>

\* C15: getModels returns normally only when the daemon answered with a
\* model list; a payload without the list and a request that failed after
\* its retries end in an error raised to the caller.
C15_ListModelsRaisesOnFailure ==
    (call.method = "getModels" /\ call.phase = "done") =>
        /\ call.result.how = "return" => call.answer = "list"
        /\ call.answer \in {"nolist", "neterr"} => call.result.how = "raise"

\* C16: loadModel and unloadModel return false when the daemon answers with
\* a non-2xx status, and raise when the request failed at transport level.
C16_LoadRaisesOnTransportFailure ==
    (call.method \in {"loadModel", "unloadModel"} /\ call.phase = "done") =>
        /\ call.answer = "nonok" => call.result = [how |-> "return", value |-> FALSE]
        /\ call.answer = "neterr" => call.result.how = "raise"

\* C17: checkStatus of a daemon that is down returns, without throwing, a
\* status with isReachable = false that carries the message of the error
\* that caused it.
C17_StatusCarriesTheError ==
    (call.method = "checkStatus" /\ AllAttemptsFailed) =>
        /\ call.result.how = "return"
        /\ ~call.result.value.isReachable
        /\ "error" \in DOMAIN call.result.value

\* the response.markdown calls that forward the chunks of a stream
Forwarded(stream) ==
    LET texts == {i \in 1..Len(stream) : stream[i] = "text"}
        place(j) == CHOOSE i \in texts : Cardinality({h \in texts : h < i}) = j - 1
    IN [j \in 1..Cardinality(texts) |-> Wrote("chunk", place(j))]

\* C18: a turn cancelled after k of the n chunks of its stream were received
\* (k < n) has forwarded the content of those k chunks and nothing else, has
\* written no error, returns normally, and takes no chunk from the stream
\* after the one at which it saw the cancellation.
C18_CancelledStreamIsCutShort ==
    (/\ turn.phase = "done"
     /\ turn.cancelled
     /\ ~turn.failed
     /\ turn.cancelledAt < Len(turn.stream))
    => /\ turn.sink = Forwarded(SubSeq(turn.stream, 1, turn.cancelledAt))
       /\ \A i \in 1..Len(turn.sink) : turn.sink[i].kind = "chunk"
       /\ turn.outcome = "return"
       /\ turn.read = turn.cancelledAt + 1

\* C18 witness: a turn cancelled after 2 of 3 chunks ended with those two
\* chunks in the sink.
C18_Witness ==
    /\ turn.phase = "done"
    /\ turn.cancelled
    /\ turn.cancelledAt = 2
    /\ turn.stream = <<"text", "text", "text">>
    /\ turn.sink = <<Wrote("chunk", 1), Wrote("chunk", 2)>>

\* handleChatRequest ran in this step
TurnStarts == turn.phase \in {"idle", "done"} /\ turn' # turn

NoUsableModel == {"noModel", "notLoaded"}

\* C19: a turn for which no model is resolved, or whose resolved model is not
\* loaded (which is so whenever no cached model is loaded), writes one "no
\* usable model" message and returns without a request to the daemon.
C19_NoUsableModelNoRequest ==
    [][TurnStarts =>
         LET m == providerGetDefaultModel(models, defaultModel)
             unusable == m = 0 \/ ~models[m].isLoaded
         IN /\ unusable <=> (\A i \in 1..Len(models) : ~models[i].isLoaded)
            /\ unusable => /\ turn'.requests = 0
                           /\ turn'.phase = "done"
                           /\ turn'.outcome = "return"
                           /\ Len(turn'.sink) = 1
                           /\ turn'.sink[1].kind \in NoUsableModel]_vars

\* C19 witness: a turn over a cache that holds models, none of them loaded,
\* ended with the message and no request.
C19_Witness ==
    /\ turn.phase = "done"
    /\ turn.requests = 0
    /\ turn.sink = <<Wrote("notLoaded", 0)>>
    /\ Len(models) > 0
    /\ \A i \in 1..Len(models) : ~models[i].isLoaded

\* C20: a streaming request that fails, while connecting or in mid-stream,
\* is never raised to the host: handleChatRequest returns after it wrote an
\* error message to the response that took the chunks before it.
C20_StreamFailureIsWritten ==
    /\ turn.outcome # "raise"
    /\ turn.failed =>
         /\ turn.phase = "done"
         /\ turn.outcome = "return"
         /\ Len(turn.sink) > 0
         /\ turn.sink[Len(turn.sink)] = Wrote("error", 0)
         /\ \A i \in 1..(Len(turn.sink) - 1) : turn.sink[i].kind = "chunk"

\* C20 witness: a stream failed after two chunks were forwarded and the
\* error message follows them in the sink.
C20_Witness ==
    /\ turn.failed
    /\ turn.read = 2
    /\ turn.sink = <<Wrote("chunk", 1), Wrote("chunk", 2), Wrote("error", 0)>>

\* the chat role of a history turn
RoleOf(t) == IF t.kind = "request" THEN "user" ELSE "assistant"

\* C21 as stated: the message list has one message per turn of the history,
\* in order and with the turn's role, followed by one for the prompt.
C21_OneMessagePerTurn ==
    calc.fn = "buildMessages" =>
        LET history == calc.input.history
        IN /\ Len(calc.output) = Len(history) + 1
           /\ \A i \in 1..Len(history) : calc.output[i].role = RoleOf(history[i])
           /\ calc.output[Len(calc.output)] = [role |-> "user", content |-> calc.input.prompt]

\* the history turns that get a message: the requests, and the responses
\* whose markdown text is not blank
Kept(history) ==
    {i \in 1..Len(history) :
        history[i].kind = "request" \/ ~IsBlank(responseText(history[i]))}

\* the k-th smallest member of a set of places
Nth(S, k) == CHOOSE i \in S : Cardinality({h \in S : h < i}) = k - 1

\* C21 amended: the message list has one message per request turn and per
\* response turn whose markdown text is not blank, in the order of the
\* history, each with the role and text of its turn, followed by one user
\* message for the prompt; a response turn with blank text gets no message.
C21_OneMessagePerSpokenTurn ==
    calc.fn = "buildMessages" =>
        LET history == calc.input.history
            kept == Kept(history)
        IN /\ Len(calc.output) = Cardinality(kept) + 1
           /\ \A k \in 1..Cardinality(kept) :
                LET t == history[Nth(kept, k)]
                IN /\ calc.output[k].role = RoleOf(t)
                   /\ calc.output[k].content =
                        IF t.kind = "request" THEN t.prompt ELSE responseText(t)
           /\ calc.output[Len(calc.output)] = [role |-> "user", content |-> calc.input.prompt]

\* C21 witness: a history of a request and a response with text gave three
\* messages, user, assistant, user.
C21_Witness ==
    /\ calc.fn = "buildMessages"
    /\ Len(calc.input.history) = 2
    /\ Len(calc.output) = 3
    /\ calc.output[1].role = "user"
    /\ calc.output[2] = [role |-> "assistant", content |-> Word]

\* C22: the content of the daemon-format message is the concatenation of the
\* message's text parts in order, nothing between them, nothing from the
\* other parts.
C22_ContentIsConcatenation ==
    calc.fn = "convertMessage" =>
        calc.output.content = Join(TextValues(calc.input.content), <<>>)

\* the ways a refreshModels() call ends its first step
RefreshCalls == {"refreshBusy", "refreshRecent", "refreshStarted", "refreshForced"}

\* C23: startPeriodicDiscovery calls refreshModels() in the step that starts
\* the timer, the timer then calls it once per interval (one call, in a step
\* of its own, each time a whole interval since the start is over), and once
\* the returned handle is disposed the timer makes no further call.
C23_PeriodicRefreshUntilDisposed ==
    [][/\ (timer = NoTimer /\ timer' # NoTimer) =>
            /\ timer'.calls = 1
            /\ last'.op \in RefreshCalls
       /\ timer'.calls # timer.calls =>
            /\ timer'.calls = timer.calls + 1
            /\ last'.op \in RefreshCalls
       /\ timer'.active =>
            LET elapsed == now' - timer'.since
            IN  \/ timer'.calls - 1 = elapsed \div timer'.intervalMs
                \/ /\ timer'.calls = elapsed \div timer'.intervalMs
                   /\ elapsed % timer'.intervalMs = 0
       /\ timer.disposed => timer'.calls = timer.calls]_vars

\* C23 witness: the timer made its second call, the handle was disposed and
\* the next interval is over
C23_Witness ==
    /\ timer.disposed
    /\ timer.calls = 2
    /\ now >= timer.due

\* C24: a refresh asked for by the user ends with a success confirmation only
\* if it succeeded; a refresh that failed ends with an error message.
C24_FailedRefreshShowsError ==
    last.op \in FailedRefresh => refreshCommandShows(last, models).kind = "error"

\* ceil(n / 4), from its definition: the least r with 4 r >= n
CeilQuarter(n) == CHOOSE r \in 0..n : 4 * r >= n /\ 4 * (r - 1) < n

RECURSIVE SumOfEstimates(_, _)
SumOfEstimates(messages, k) ==
    IF k = 0 THEN 0
    ELSE SumOfEstimates(messages, k - 1) + CeilQuarter(Len(messages[k].content)) + 4

\* C25: estimateTokens(text) is ceil(L / 4) for a text of length L, 0 for the
\* empty text, and estimateTokensForMessages(ms) is the sum over the messages
\* of ceil(len(content) / 4) + 4.
C25_TokenEstimates ==
    /\ calc.fn = "estimateTokens" =>
            /\ calc.output = CeilQuarter(Len(calc.input))
            /\ Len(calc.input) = 0 => calc.output = 0
    /\ calc.fn = "estimateTokensForMessages" =>
            calc.output = SumOfEstimates(calc.input, Len(calc.input))

\* C25 witness: two messages of 5 and of 1 characters are estimated at
\* (2 + 4) + (1 + 4) tokens
C25_Witness ==
    /\ calc.fn = "estimateTokensForMessages"
    /\ Len(calc.input) = 2
    /\ Len(calc.input[1].content) = 5
    /\ Len(calc.input[2].content) = 1
    /\ calc.output = 11

\* the number written in the text, in tenths
TenthsOf(text) == text.whole * 10 + text.tenth

\* number, with one decimal, is as near count / unit as a number with one
\* decimal can be
NearestTenth(text, count, unit) ==
    /\ text.tenth \in 0..9
    /\ text.whole >= 0
    /\ 2 * (TenthsOf(text) * unit - count * 10) <= unit
    /\ 2 * (count * 10 - TenthsOf(text) * unit) <= unit

\* C26: formatTokenCount(n) is "n tokens" below 1000, n / 1000 with one
\* decimal and "K tokens" from 1000 to 999999, n / 1000000 with one decimal
\* and "M tokens" from 1000000 on; 500 gives "500 tokens", 1500 gives
\* "1.5K tokens" and 1500000 gives "1.5M tokens".
C26_TokenCountFormat ==
    calc.fn = "formatTokenCount" =>
        LET n == calc.input
            text == calc.output
        IN  /\ n < 1000 => text = TokenText(n, NoTenth, "")
            /\ (1000 <= n /\ n < 1000000) =>
                    text.unit = "K" /\ NearestTenth(text, n, 1000)
            /\ n >= 1000000 => text.unit = "M" /\ NearestTenth(text, n, 1000000)
            /\ n = 500 => text = TokenText(500, NoTenth, "")
            /\ n = 1500 => text = TokenText(1, 5, "K")
            /\ n = 1500000 => text = TokenText(1, 5, "M")

\* C26 witness: 1500000 was formatted
C26_Witness ==
    /\ calc.fn = "formatTokenCount"
    /\ calc.input = 1500000
    /\ calc.output.unit = "M"

\* C27: a refresh that set refreshInProgress eventually ends and leaves
\* refreshInProgress = false, whether it succeeded, found the daemon
\* unreachable or failed.
C27_RefreshReturnsToIdle == refreshInProgress ~> ~refreshInProgress

\* C27 witness: a refresh failed and the registry is idle again
C27_Witness ==
    /\ last.op \in FailedRefresh
    /\ ~refreshInProgress
    /\ inFlight = 0

\* C28: when a load of id succeeded and id is cached, the list its change
\* notification carries, the cache, has id with isLoaded = true, also when a
\* refresh was applied while the load request was in flight.
C28_LoadedWhenTheLoadFires ==
    (last.op = "loadSucceeded" /\ last.fired) =>
        LET i == getModel(last.payload, last.id)
        IN  i # 0 => last.payload[i].isLoaded

\* getDefaultModel() returns the model id if id is cached
DefaultStays(list, configured, id) ==
    getModel(list, id) # 0 =>
        LET i == getDefaultModel(list, configured)
        IN  i # 0 /\ list[i].id = id

\* C29: once setDefaultModel(id) has succeeded, getDefaultModel() returns the
\* model id in every later state in which id is cached, whatever refreshes,
\* loads and unloads happen, until another setDefaultModel succeeds; stated
\* for the first of these later states, the one after the step that follows
\* the set.
C29_DefaultPersists ==
    [][(last.op = "defaultSet" /\ last'.op # "defaultSet")
        => DefaultStays(models', defaultModel', last.id)]_vars

\* the cache after a refresh was applied has the models of the response, in
\* the order of the response
HoldsTheResponse(list, data) ==
    /\ Len(list) = Len(data)
    /\ \A i \in 1..Len(list) :
        /\ list[i].id = data[i].id
        /\ list[i].isLoaded = (data[i].isLoaded = "true")

C31_IdsAreUnique ==
    \A i, j \in 1..Len(models) : models[i].id = models[j].id => i = j

\* the calls of refreshModels() without force, by how their first step ends
NonForcedCalls == {"refreshBusy", "refreshRecent", "refreshStarted"}

\* less than refreshInterval has passed since the last refresh was applied
InWindow == lastRefresh # NoDate /\ now - lastRefresh < refreshInterval

\* C32: a refreshModels() call without force made less than 30 s after the
\* last refresh returns the cached list, starts no daemon request and does
\* not set refreshInProgress; a call with force = true is never turned away:
\* it always starts a refresh.
C32_WindowSuppressesNonForcedOnly ==
    [][/\ (InWindow /\ last'.op \in NonForcedCalls) =>
            /\ last'.op # "refreshStarted"
            /\ last'.result = "list"
            /\ inFlight' = inFlight
            /\ refreshInProgress' = refreshInProgress
            /\ models' = models
       /\ inFlight < MaxRefreshes =>
            /\ ENABLED (RefreshModels(TRUE, FALSE) /\ last'.op = "refreshForced")
            /\ ~ENABLED (RefreshModels(TRUE, FALSE) /\ last'.op # "refreshForced")]_vars

\* C32 witness: a call without force was answered from the cache some time
\* after the last refresh, with no refresh in flight
C32_Witness ==
    /\ last.op = "refreshRecent"
    /\ now > lastRefresh
    /\ InWindow
    /\ inFlight = 0

\* C33: the model a chat turn sends its request for is the model that the
\* registry's getDefaultModel() yields for the same cache and setting.
C33_TurnUsesRegistryDefault ==
    [][(TurnStarts /\ turn'.requests = 1) =>
         LET i == getDefaultModel(models, defaultModel)
         IN  i # 0 /\ turn'.model = models[i].id]_vars

\* C34: once the token is cancelled while the body is being read, the
\* response reads no further line of the body: the next step of the response
\* is its end.
C34_CancelStopsReading ==
    [][(turn.phase = "streaming" /\ turn.cancelled) => turn'.read = turn.read]_vars

\* the places of the chunks the sink holds, in the order they were reported
Delivered == [i \in 1..Len(turn.sink) |-> turn.sink[i].at]

\* C35: a request is sent again only from the backoff of a fetch that
\* failed; while the body is being read the number of requests sent stays, a
\* read failure ends the response with the error and reports nothing, and no
\* place of the body is reported twice.
C35_RetryOnlyWhileConnecting ==
    [][/\ (turn.phase \in {"connecting", "waiting", "streaming"}
            /\ turn'.requests # turn.requests) =>
               /\ turn.phase = "waiting"
               /\ turn'.requests = turn.requests + 1
               /\ turn.requests <= turn.maxRetries
       /\ (turn.phase = "streaming" /\ turn'.ending = "error") =>
               /\ turn'.phase = "done" /\ turn'.outcome = "raise" /\ turn'.failed
               /\ turn'.sink = turn.sink
       /\ \A i, j \in 1..Len(turn'.sink) :
               turn'.sink[i].at = turn'.sink[j].at => i = j]_vars

C35_Witness ==
    /\ turn.phase = "done" /\ turn.ending = "error" /\ turn.outcome = "raise"
    /\ turn.requests >= 2 /\ Len(turn.sink) >= 2

\* C36: no line of the body that comes after a [DONE] line is reported to
\* the consumer.
C36_NothingAfterTheMarker ==
    \A i \in 1..Len(turn.sink) :
        \A j \in 1..(turn.sink[i].at - 1) : turn.stream[j] # "done"

\* the places of the text lines of the body that come before any [DONE]
TextBeforeMarker ==
    SelectSeq([k \in 1..Len(turn.stream) |-> k],
              LAMBDA k : turn.stream[k] = "text" /\ \A j \in 1..(k - 1) : turn.stream[j] # "done")

\* C37: a line that does not parse is skipped. Of a response that was not
\* cancelled, every text line before any [DONE] is reported, the reported
\* lines are text lines in the order of the body, and a read that brings
\* lines leaves the response reading, without an error.
C37_MalformedIsSkipped ==
    [][/\ ~turn'.cancelled =>
               /\ \A k \in 1..Len(TextBeforeMarker') :
                      \E i \in 1..Len(turn'.sink) : turn'.sink[i] = Wrote("chunk", TextBeforeMarker'[k])
               /\ \A i \in 1..Len(turn'.sink) :
                      /\ turn'.sink[i].kind = "chunk"
                      /\ turn'.stream[turn'.sink[i].at] = "text"
                      /\ \A j \in 1..(i - 1) : turn'.sink[j].at < turn'.sink[i].at
       /\ Len(turn'.stream) > Len(turn.stream) =>
               turn'.phase = "streaming" /\ ~turn'.failed /\ turn'.outcome = "pending"]_vars

C37_Witness ==
    /\ turn.phase = "done" /\ turn.outcome = "return" /\ ~turn.cancelled
    /\ turn.stream = <<"text", "malformed", "text">>
    /\ Delivered = <<1, 3>>

\* the calls that end without a change of the cache: a refresh answered by
\* the busy test or the recency test, a refresh that found the daemon
\* unreachable, a load or unload of a model already in that state, a load or
\* unload the daemon refused
QuietOps ==
    {"refreshBusy", "refreshRecent", "refreshUnreachable",
     "loadNoop", "unloadNoop", "loadFailed", "unloadFailed"}

\* C38: a call that ends without a change of the cache fires no change
\* event and leaves lastRefresh and the cache as they were.
C38_QuietCallsLeaveNoTrace ==
    [][last'.op \in QuietOps =>
         /\ ~last'.fired
         /\ lastRefresh' = lastRefresh
         /\ models' = models]_vars

C38_Witness ==
    /\ last.op = "refreshUnreachable"
    /\ lastRefresh # NoDate /\ now > lastRefresh
    /\ \E i \in 1..Len(models) : models[i].isLoaded

\* C39: once the extension is deactivated, the timer of periodic discovery
\* makes no further refreshModels() call.
C39_NoRefreshAfterDeactivate ==
    [][timer.deactivated => timer'.calls = timer.calls]_vars

\* C40: truncateToTokenLimit returns the text itself when its estimate is
\* within the limit, and else a text whose estimate is within the limit.
C40_TruncatedFitsTheLimit ==
    calc.fn = "truncateToTokenLimit" =>
        IF estimateTokens(calc.input.text) <= calc.input.maxTokens
        THEN calc.output = calc.input.text
        ELSE estimateTokens(calc.output) <= calc.input.maxTokens
====
